---- MODULE Spec2Model ----
(***************************************************************************)
(* escpos-rw: USB connection establishment (Printer::new), endpoint        *)
(* resolution, and the raw bulk transfer primitives (write_raw, read_raw). *)
(* The host USB subsystem (rusb) is the environment: every call into it    *)
(* has a nondeterministic outcome.                                         *)
(***************************************************************************)
EXTENDS Integers, Sequences, FiniteSets, TLC

VARIABLES
    devices,                 \* the enumeration context.devices() yields (environment)
    kernel_driver,           \* per device: is a kernel driver attached to interface 0
    open_handles,            \* device indices on which an open DeviceHandle exists
    claimed,                 \* device indices whose interface 0 is claimed by a handle
    printer_connection_data, \* the UsbConnectionData built by Printer::new
    pc,                      \* position inside Printer::new
    idx,                     \* position of the `for device in devices.iter()` loop
    config_descriptor,       \* Option: active config descriptor of the matched device
    actual_endpoint,         \* Option<u8>: resolved bulk write endpoint
    actual_endpoint_r,       \* Option<u8>: resolved bulk read endpoint
    dh,                      \* Option: the local DeviceHandle of Printer::new
    result,                  \* return value of Printer::new
    printer,                 \* Option: the live Printer value owned by the caller
    calls,                   \* host calls made by the operation in progress, in order
    io_pc,                   \* position inside write_raw / read_raw
    bytes,                   \* argument of the write_raw call in progress
    buffer,                  \* the local buffer of read_raw
    io_result,               \* return value of the last write_raw / read_raw
    ncalls                   \* number of write_raw / read_raw calls started

connVars == <<printer_connection_data, pc, idx, config_descriptor,
              actual_endpoint, actual_endpoint_r, dh, result>>
hostVars == <<devices, kernel_driver, open_handles, claimed>>
ioVars   == <<io_pc, bytes, buffer, io_result, ncalls>>
vars     == <<devices, kernel_driver, open_handles, claimed,
              printer_connection_data, pc, idx, config_descriptor,
              actual_endpoint, actual_endpoint_r, dh, result, printer, calls,
              io_pc, bytes, buffer, io_result, ncalls>>

----------------------------------------------------------------------------
(* Bounds of the model *)

MaxDevices   == 2    \* length of the device enumeration
MaxEndpoints == 3    \* endpoints of a configuration descriptor (resolver inputs)
MaxCalls     == 2    \* write_raw / read_raw calls on one connection

----------------------------------------------------------------------------
(* Program constants *)

OP_DELAY     == 10   \* milliseconds slept after a successful write
BUF_LEN      == 20   \* size of the read buffer
TIMEOUT_SECS == 2    \* Duration::from_secs(2)

----------------------------------------------------------------------------
(* Option and Result values *)

None    == <<>>
Some(x) == <<x>>
Unwrap(o) == o[1]

Pending == <<"Pending">>
Ok(v)   == <<"Ok", v>>
Err(e)  == <<"Err", e>>
IsOk(r)  == r[1] = "Ok"
IsErr(r) == r[1] = "Err"

(* enum Error *)
UsbError(e)     == <<"UsbError", e>>
NoBulkEndpoint  == <<"NoBulkEndpoint">>
IoError         == <<"IoError">>
PrinterError(s) == <<"PrinterError", s>>

(* rusb::Error causes the host calls of connect can report *)
UsbErrors == {"Access", "Busy", "NoDevice"}
(* rusb::Error causes a bulk transfer can report: timeout, stall, disconnect *)
TransferErrors == {"Timeout", "Pipe", "NoDevice"}

----------------------------------------------------------------------------
(* Endpoint and configuration descriptors, as rusb reports them *)

Endpoint(t, d, a) == [transfer_type |-> t, direction |-> d, address |-> a]

EndpointPool ==
    { Endpoint("Bulk", "Out", 1),   Endpoint("Bulk", "Out", 3),
      Endpoint("Bulk", "In", 130),  Endpoint("Bulk", "In", 132),
      Endpoint("Interrupt", "In", 129), Endpoint("Interrupt", "Out", 2) }

(* struct UsbConnectionData, as Printer::new fills it *)
UsbConnectionData(vendor_id, product_id) ==
    [ vendor_id  |-> vendor_id,
      product_id |-> product_id,
      endpoint_w |-> None,
      endpoint_r |-> None,
      timeout    |-> TIMEOUT_SECS ]

(* variant: the two endpoint fields filled the other way round *)
NewPrinterSwapped(endpoint, endpoint_r, handle, timeout) ==
    [ endpoint   |-> endpoint_r,
      endpoint_r |-> endpoint,
      dh         |-> handle,
      timeout    |-> timeout ]

(* struct PrinterConnection wrapped in struct Printer *)
NewPrinter(endpoint, endpoint_r, handle, timeout) ==
    [ endpoint   |-> endpoint,
      endpoint_r |-> endpoint_r,
      dh         |-> handle,
      timeout    |-> timeout ]

----------------------------------------------------------------------------
(* Endpoint resolution: the three nested loops of Printer::new.  A later   *)
(* bulk endpoint of the wanted direction overwrites an earlier one.        *)

(* variant: the first bulk endpoint of the wanted direction is kept *)
DetectFirst(endpoint, dir, detected) ==
    IF detected = None /\ endpoint.transfer_type = "Bulk" /\ endpoint.direction = dir
    THEN Some(endpoint.address)
    ELSE detected

DetectStep(endpoint, dir, detected) ==
    IF endpoint.transfer_type = "Bulk" /\ endpoint.direction = dir
    THEN Some(endpoint.address)
    ELSE detected

RECURSIVE ScanEndpoints(_, _, _)
ScanEndpoints(eps, dir, detected) ==
    IF eps = <<>> THEN detected
    ELSE ScanEndpoints(Tail(eps), dir, DetectStep(Head(eps), dir, detected))

RECURSIVE ScanDescriptors(_, _, _)
ScanDescriptors(descs, dir, detected) ==
    IF descs = <<>> THEN detected
    ELSE ScanDescriptors(Tail(descs), dir, ScanEndpoints(Head(descs), dir, detected))

RECURSIVE ScanInterfaces(_, _, _)
ScanInterfaces(ifaces, dir, detected) ==
    IF ifaces = <<>> THEN detected
    ELSE ScanInterfaces(Tail(ifaces), dir, ScanDescriptors(Head(ifaces), dir, detected))

(* the error of an unresolved direction *)
ResolveFailure == NoBulkEndpoint

(* variant: an unresolved direction falls back to endpoint address 0 *)
ResolveOrZero(override, config, dir) ==
    IF override # None
    THEN Ok(Unwrap(override))
    ELSE LET detected == ScanInterfaces(config, dir, None)
         IN  IF detected # None THEN Ok(Unwrap(detected)) ELSE Ok(0)

(* variant: the descriptor is scanned first, the override only fills a gap *)
ResolveScanFirst(override, config, dir) ==
    LET detected == ScanInterfaces(config, dir, None)
    IN  IF detected # None THEN Ok(Unwrap(detected))
        ELSE IF override # None THEN Ok(Unwrap(override))
        ELSE Err(ResolveFailure)

(* `if let Some(e) = override { e } else { scan; detected or return Err }` *)
ResolveEndpoint(override, config, dir) ==
    IF override # None
    THEN Ok(Unwrap(override))
    ELSE LET detected == ScanInterfaces(config, dir, None)
         IN  IF detected # None THEN Ok(Unwrap(detected)) ELSE Err(ResolveFailure)

----------------------------------------------------------------------------
(* The environment Printer::new runs against *)

(* vendor id / product id pairs: Epson TM-T20 (0x04b8, 0x0e15), the Epson   *)
(* of the documentation example (0x04b8, 0x0202), ZKTeco (0x6868, 0x0200)  *)
DeviceIds == { <<1208, 3605>>, <<1208, 514>>, <<26728, 512>> }

(* ids Printer::new is called with *)
TargetIds == { <<1208, 3605>>, <<1208, 514>> }

(* interface 0, one setting: bulk OUT 0x01, bulk IN 0x82 *)
ConfigPrinter == << << << Endpoint("Bulk", "Out", 1), Endpoint("Bulk", "In", 130) >> >> >>
(* only a bulk IN endpoint *)
ConfigInOnly  == << << << Endpoint("Interrupt", "Out", 2), Endpoint("Bulk", "In", 130) >> >> >>
(* only a bulk OUT endpoint *)
ConfigOutOnly == << << << Endpoint("Bulk", "Out", 1), Endpoint("Interrupt", "In", 129) >> >> >>
(* two interfaces, the first with two settings; several bulk endpoints per direction *)
ConfigMulti   ==
    << << << Endpoint("Bulk", "In", 130), Endpoint("Bulk", "Out", 1) >>,
          << Endpoint("Interrupt", "In", 129) >> >>,
       << << Endpoint("Bulk", "Out", 3), Endpoint("Bulk", "In", 132),
             Endpoint("Interrupt", "Out", 2) >> >> >>

ConfigPool == { ConfigPrinter, ConfigInOnly, ConfigOutOnly, ConfigMulti }

DevicePool ==
    { [vendor_id |-> id[1], product_id |-> id[2], config |-> c] :
        id \in DeviceIds, c \in ConfigPool }

DeviceLists == UNION { [1..n -> DevicePool] : n \in 0..MaxDevices }

----------------------------------------------------------------------------
(* Printer::new *)

(* variant: one equal id is enough *)
MatchesEither(s, data) ==
    s.vendor_id = data.vendor_id \/ s.product_id = data.product_id

(* variant: a device whose endpoints do not resolve is passed over *)
MatchesUsable(s, data) ==
    /\ s.vendor_id = data.vendor_id /\ s.product_id = data.product_id
    /\ IsOk(ResolveEndpoint(data.endpoint_w, s.config, "Out"))
    /\ IsOk(ResolveEndpoint(data.endpoint_r, s.config, "In"))

(* `s.vendor_id() == data.vendor_id && s.product_id() == data.product_id` *)
Matches(s, data) ==
    s.vendor_id = data.vendor_id /\ s.product_id = data.product_id

(* variant: the handle is leaked instead of dropped *)
HandlesLeaked(h) == open_handles

(* Dropping a DeviceHandle releases the interfaces claimed through it and  *)
(* closes it.  Printer::new drops its local `dh` on every early return.    *)
HandlesAfterDrop(h) == open_handles \ {h}
ClaimsAfterDrop(h)  == claimed \ {h}

Return(r) ==
    /\ result' = r
    /\ pc' = "done"

(* the host call just made, the device it was made on, and how it ended *)
Log(call, outcome) == calls' = Append(calls, <<call, idx, outcome>>)

(* Context::new().map_err(Error::UsbError)? *)
ContextNew ==
    /\ pc = "start"
    /\ \/ /\ Log("Context::new", "Ok")
          /\ pc' = "devices"
          /\ UNCHANGED result
       \/ \E e \in UsbErrors :
            /\ Log("Context::new", e)
            /\ Return(Err(UsbError(e)))
    /\ UNCHANGED <<hostVars, printer_connection_data, idx, config_descriptor,
                   actual_endpoint, actual_endpoint_r, dh, printer, ioVars>>

(* context.devices().map_err(Error::UsbError)? *)
ContextDevices ==
    /\ pc = "devices"
    /\ \/ /\ Log("devices", "Ok")
          /\ pc' = "loop"
          /\ idx' = 1
          /\ UNCHANGED result
       \/ /\ \E e \in UsbErrors :
               /\ Log("devices", e)
               /\ Return(Err(UsbError(e)))
          /\ UNCHANGED idx
    /\ UNCHANGED <<hostVars, printer_connection_data, config_descriptor,
                   actual_endpoint, actual_endpoint_r, dh, printer, ioVars>>

(* variant: a device whose descriptor cannot be read is passed over *)
DeviceDescriptorSkipUnreadable ==
    /\ pc = "loop"
    /\ idx <= Len(devices)
    /\ \/ /\ Log("device_descriptor", "Ok")
          /\ Matches(devices[idx], printer_connection_data)
          /\ pc' = "config"
          /\ UNCHANGED <<idx, result>>
       \/ /\ Log("device_descriptor", "Ok")
          /\ ~Matches(devices[idx], printer_connection_data)
          /\ idx' = idx + 1
          /\ UNCHANGED <<pc, result>>
       \/ /\ \E e \in UsbErrors : Log("device_descriptor", e)
          /\ idx' = idx + 1
          /\ UNCHANGED <<pc, result>>
    /\ UNCHANGED <<hostVars, printer_connection_data, config_descriptor,
                   actual_endpoint, actual_endpoint_r, dh, printer, ioVars>>

(* device.device_descriptor().map_err(Error::UsbError)? and the id test *)
DeviceDescriptor ==
    /\ pc = "loop"
    /\ idx <= Len(devices)
    /\ \/ /\ Log("device_descriptor", "Ok")
          /\ Matches(devices[idx], printer_connection_data)
          /\ pc' = "config"
          /\ UNCHANGED <<idx, result>>
       \/ /\ Log("device_descriptor", "Ok")
          /\ ~Matches(devices[idx], printer_connection_data)
          /\ idx' = idx + 1
          /\ UNCHANGED <<pc, result>>
       \/ /\ \E e \in UsbErrors :
               /\ Log("device_descriptor", e)
               /\ Return(Err(UsbError(e)))
          /\ UNCHANGED idx
    /\ UNCHANGED <<hostVars, printer_connection_data, config_descriptor,
                   actual_endpoint, actual_endpoint_r, dh, printer, ioVars>>

(* the loop ends without a match: Ok(None) *)
NoPrinterFound ==
    /\ pc = "loop"
    /\ idx > Len(devices)
    /\ Return(Ok(None))
    /\ UNCHANGED <<hostVars, printer_connection_data, idx, config_descriptor,
                   actual_endpoint, actual_endpoint_r, dh, printer, calls, ioVars>>

(* device.active_config_descriptor().map_err(Error::UsbError)? *)
ActiveConfigDescriptor ==
    /\ pc = "config"
    /\ \/ /\ Log("active_config_descriptor", "Ok")
          /\ config_descriptor' = Some(devices[idx].config)
          /\ pc' = "resolve_w"
          /\ UNCHANGED result
       \/ /\ \E e \in UsbErrors :
               /\ Log("active_config_descriptor", e)
               /\ Return(Err(UsbError(e)))
          /\ UNCHANGED config_descriptor
    /\ UNCHANGED <<hostVars, printer_connection_data, idx,
                   actual_endpoint, actual_endpoint_r, dh, printer, ioVars>>

(* let actual_endpoint = ... *)
ResolveWrite ==
    /\ pc = "resolve_w"
    /\ LET r == ResolveEndpoint(printer_connection_data.endpoint_w,
                                Unwrap(config_descriptor), "Out")
       IN  IF IsOk(r)
           THEN /\ actual_endpoint' = Some(r[2])
                /\ pc' = "resolve_r"
                /\ UNCHANGED result
           ELSE /\ Return(Err(r[2]))
                /\ UNCHANGED actual_endpoint
    /\ UNCHANGED <<hostVars, printer_connection_data, idx, config_descriptor,
                   actual_endpoint_r, dh, printer, calls, ioVars>>

(* let actual_endpoint_r = ... *)
ResolveRead ==
    /\ pc = "resolve_r"
    /\ LET r == ResolveEndpoint(printer_connection_data.endpoint_r,
                                Unwrap(config_descriptor), "In")
       IN  IF IsOk(r)
           THEN /\ actual_endpoint_r' = Some(r[2])
                /\ pc' = "open"
                /\ UNCHANGED result
           ELSE /\ Return(Err(r[2]))
                /\ UNCHANGED actual_endpoint_r
    /\ UNCHANGED <<hostVars, printer_connection_data, idx, config_descriptor,
                   actual_endpoint, dh, printer, calls, ioVars>>

(* match device.open() *)
DeviceOpen ==
    /\ pc = "open"
    /\ \/ /\ Log("open", "Ok")
          /\ dh' = Some(idx)
          /\ open_handles' = open_handles \cup {idx}
          /\ pc' = "query"
          /\ UNCHANGED result
       \/ /\ \E e \in UsbErrors :
               /\ Log("open", e)
               /\ Return(Err(UsbError(e)))
          /\ UNCHANGED <<dh, open_handles>>
    /\ UNCHANGED <<devices, kernel_driver, claimed, printer_connection_data, idx,
                   config_descriptor, actual_endpoint, actual_endpoint_r,
                   printer, ioVars>>

(* variant: a failed query is returned as an error *)
KernelDriverActiveStrict ==
    /\ pc = "query"
    /\ \/ /\ kernel_driver[Unwrap(dh)]
          /\ Log("kernel_driver_active", "OkTrue")
          /\ pc' = "detach"
          /\ UNCHANGED <<open_handles, claimed, dh, result>>
       \/ /\ ~kernel_driver[Unwrap(dh)]
          /\ Log("kernel_driver_active", "OkFalse")
          /\ pc' = "claim"
          /\ UNCHANGED <<open_handles, claimed, dh, result>>
       \/ /\ Log("kernel_driver_active", "Err")
          /\ \E e \in UsbErrors : Return(Err(UsbError(e)))
          /\ open_handles' = open_handles \ {Unwrap(dh)}
          /\ claimed' = claimed \ {Unwrap(dh)}
          /\ dh' = None
    /\ UNCHANGED <<devices, kernel_driver, printer_connection_data, idx,
                   config_descriptor, actual_endpoint, actual_endpoint_r,
                   printer, ioVars>>

(* variant: a failed query is taken to mean that a driver is attached *)
KernelDriverActiveAssumed ==
    /\ pc = "query"
    /\ \/ /\ kernel_driver[Unwrap(dh)]
          /\ Log("kernel_driver_active", "OkTrue")
          /\ pc' = "detach"
       \/ /\ ~kernel_driver[Unwrap(dh)]
          /\ Log("kernel_driver_active", "OkFalse")
          /\ pc' = "claim"
       \/ /\ Log("kernel_driver_active", "Err")
          /\ pc' = "detach"
    /\ UNCHANGED <<hostVars, printer_connection_data, idx, config_descriptor,
                   actual_endpoint, actual_endpoint_r, dh, result, printer, ioVars>>

(* if let Ok(active) = dh.kernel_driver_active(0) { if active {..} } else { println } *)
KernelDriverActive ==
    /\ pc = "query"
    /\ \/ /\ kernel_driver[Unwrap(dh)]
          /\ Log("kernel_driver_active", "OkTrue")
          /\ pc' = "detach"
       \/ /\ ~kernel_driver[Unwrap(dh)]
          /\ Log("kernel_driver_active", "OkFalse")
          /\ pc' = "claim"
       \/ /\ Log("kernel_driver_active", "Err")   \* message printed, go on
          /\ pc' = "claim"
    /\ UNCHANGED <<hostVars, printer_connection_data, idx, config_descriptor,
                   actual_endpoint, actual_endpoint_r, dh, result, printer, ioVars>>

(* variant: a failed detach is passed over like a failed query *)
DetachKernelDriverLenient ==
    /\ pc = "detach"
    /\ \/ /\ Log("detach_kernel_driver", "Ok")
          /\ kernel_driver' = [kernel_driver EXCEPT ![Unwrap(dh)] = FALSE]
       \/ /\ \E e \in UsbErrors : Log("detach_kernel_driver", e)
          /\ UNCHANGED kernel_driver
    /\ pc' = "claim"
    /\ UNCHANGED <<devices, open_handles, claimed, printer_connection_data, idx,
                   config_descriptor, actual_endpoint, actual_endpoint_r, dh,
                   result, printer, ioVars>>

(* match dh.detach_kernel_driver(0) *)
DetachKernelDriver ==
    /\ pc = "detach"
    /\ \/ /\ Log("detach_kernel_driver", "Ok")
          /\ kernel_driver' = [kernel_driver EXCEPT ![Unwrap(dh)] = FALSE]
          /\ pc' = "claim"
          /\ UNCHANGED <<dh, open_handles, claimed, result>>
       \/ /\ \E e \in UsbErrors :
               /\ Log("detach_kernel_driver", e)
               /\ Return(Err(UsbError(e)))
          /\ open_handles' = HandlesAfterDrop(Unwrap(dh))
          /\ claimed' = ClaimsAfterDrop(Unwrap(dh))
          /\ dh' = None
          /\ UNCHANGED kernel_driver
    /\ UNCHANGED <<devices, printer_connection_data, idx, config_descriptor,
                   actual_endpoint, actual_endpoint_r, printer, ioVars>>

(* variant: the Printer is returned whether or not the claim succeeded *)
ClaimInterfaceLenient ==
    /\ pc = "claim"
    /\ \/ /\ Log("claim_interface", "Ok")
          /\ claimed' = claimed \cup {Unwrap(dh)}
       \/ /\ \E e \in UsbErrors : Log("claim_interface", e)
          /\ UNCHANGED claimed
    /\ LET p == NewPrinter(Unwrap(actual_endpoint), Unwrap(actual_endpoint_r),
                           Unwrap(dh), printer_connection_data.timeout)
       IN  /\ printer' = Some(p)
           /\ Return(Ok(Some(p)))
    /\ dh' = None
    /\ UNCHANGED <<devices, kernel_driver, open_handles, printer_connection_data,
                   idx, config_descriptor, actual_endpoint, actual_endpoint_r,
                   ioVars>>

(* variant: a failed claim attaches the kernel driver again if it was      *)
(* detached                                                                *)
ClaimInterfaceReattach ==
    /\ pc = "claim"
    /\ \/ /\ Log("claim_interface", "Ok")
          /\ claimed' = claimed \cup {Unwrap(dh)}
          /\ LET p == NewPrinter(Unwrap(actual_endpoint), Unwrap(actual_endpoint_r),
                                 Unwrap(dh), printer_connection_data.timeout)
             IN  /\ printer' = Some(p)
                 /\ Return(Ok(Some(p)))
          /\ dh' = None
          /\ UNCHANGED <<open_handles, kernel_driver>>
       \/ /\ \E e \in UsbErrors :
               /\ Log("claim_interface", e)
               /\ Return(Err(UsbError(e)))
          /\ open_handles' = open_handles \ {Unwrap(dh)}
          /\ claimed' = claimed \ {Unwrap(dh)}
          /\ kernel_driver' =
                IF calls[Len(calls)][1] = "detach_kernel_driver"
                THEN [kernel_driver EXCEPT ![Unwrap(dh)] = TRUE]
                ELSE kernel_driver
          /\ dh' = None
          /\ UNCHANGED printer
    /\ UNCHANGED <<devices, printer_connection_data, idx,
                   config_descriptor, actual_endpoint, actual_endpoint_r, ioVars>>

(* match dh.claim_interface(0), then return Ok(Some(Printer {..})) *)
ClaimInterface ==
    /\ pc = "claim"
    /\ \/ /\ Log("claim_interface", "Ok")
          /\ claimed' = claimed \cup {Unwrap(dh)}
          /\ LET p == NewPrinter(Unwrap(actual_endpoint), Unwrap(actual_endpoint_r),
                                 Unwrap(dh), printer_connection_data.timeout)
             IN  /\ printer' = Some(p)
                 /\ Return(Ok(Some(p)))
          /\ dh' = None              \* moved into the Printer
          /\ UNCHANGED open_handles
       \/ /\ \E e \in UsbErrors :
               /\ Log("claim_interface", e)
               /\ Return(Err(UsbError(e)))
          /\ open_handles' = HandlesAfterDrop(Unwrap(dh))
          /\ claimed' = ClaimsAfterDrop(Unwrap(dh))
          /\ dh' = None
          /\ UNCHANGED printer
    /\ UNCHANGED <<devices, kernel_driver, printer_connection_data, idx,
                   config_descriptor, actual_endpoint, actual_endpoint_r, ioVars>>

(* the caller lets the Printer go out of scope: its DeviceHandle is dropped *)
DropPrinter ==
    /\ printer # None
    /\ io_pc = "idle"
    /\ open_handles' = HandlesAfterDrop(Unwrap(printer).dh)
    /\ claimed' = ClaimsAfterDrop(Unwrap(printer).dh)
    /\ printer' = None
    /\ UNCHANGED <<devices, kernel_driver, connVars, calls, ioVars>>

----------------------------------------------------------------------------
(* Specification of connection establishment *)

NoTransfer ==
    /\ io_pc = "idle"
    /\ bytes = <<>>
    /\ buffer = <<>>
    /\ io_result = Pending
    /\ ncalls = 0

Init ==
    /\ devices \in DeviceLists
    /\ kernel_driver \in [1..Len(devices) -> BOOLEAN]
    /\ open_handles = {}
    /\ claimed = {}
    /\ \E id \in TargetIds : printer_connection_data = UsbConnectionData(id[1], id[2])
    /\ pc = "start"
    /\ idx = 0
    /\ config_descriptor = None
    /\ actual_endpoint = None
    /\ actual_endpoint_r = None
    /\ dh = None
    /\ result = Pending
    /\ printer = None
    /\ calls = <<>>
    /\ NoTransfer

Next ==
    \/ ContextNew
    \/ ContextDevices
    \/ DeviceDescriptor
    \/ NoPrinterFound
    \/ ActiveConfigDescriptor
    \/ ResolveWrite
    \/ ResolveRead
    \/ DeviceOpen
    \/ KernelDriverActive
    \/ DetachKernelDriver
    \/ ClaimInterface
    \/ DropPrinter

Spec == Init /\ [][Next]_vars

----------------------------------------------------------------------------
(* write_raw and read_raw *)

(* byte strings handed to write_raw: nothing, and the cash drawer command  *)
(* [0x1B, 0x70, 0x00, 0x7E, 0x7E] of the documentation                     *)
WriteInputs == { <<>>, <<27, 112, 0, 126, 126>> }

(* what the device sends back on a bulk IN transfer: k bytes, k <= BUF_LEN *)
ReplyLens == 0..BUF_LEN
Replies   == { [i \in 1..k |-> b] : k \in ReplyLens, b \in {18, 255} }

(* variant: the buffer of the previous read_raw is used again *)
StaleBuffer == IF buffer = <<>> THEN [i \in 1..BUF_LEN |-> 0] ELSE buffer

(* `let mut buffer: [u8; 20] = [0; 20];` *)
NewBuffer == [i \in 1..BUF_LEN |-> 0]

(* read_bulk stores the bytes received at the start of the buffer and      *)
(* leaves the rest of it alone                                             *)
ReadInto(buf, data) ==
    [i \in 1..Len(buf) |-> IF i <= Len(data) THEN data[i] ELSE buf[i]]

(* variant: a failed transfer reported as the crate's I/O error *)
TransferAsIoError(e) == IoError

(* the error write_raw / read_raw map a failed transfer to *)
TransferFailure(e) == UsbError(e)

(* variant: no settle delay *)
NoSettle == << >>

(* what write_raw does after a successful transfer, before Ok(()) *)
AfterWrite == << <<"sleep", "Ok", OP_DELAY>> >>

(* variant: write_raw sends to the read endpoint *)
WriteEndpointOther(p) == p.endpoint_r

(* `PrinterConnection {endpoint, endpoint_r: _, dh, timeout}` in write_raw *)
WriteEndpoint(p) == p.endpoint

(* write_raw up to the `?`: dh.write_bulk on the write endpoint            *)
WriteBulk ==
    /\ printer # None
    /\ io_pc = "idle"
    /\ ncalls < MaxCalls
    /\ ncalls' = ncalls + 1
    /\ \E b \in WriteInputs :
        /\ bytes' = b
        /\ LET p == Unwrap(printer)
               transfer == <<p.dh, WriteEndpoint(p), b, p.timeout>>
           IN  \/ /\ calls' = << <<"write_bulk", "Ok", transfer>> >>
                  /\ io_pc' = "written"
                  /\ io_result' = Pending
               \/ \E e \in TransferErrors :
                    /\ calls' = << <<"write_bulk", e, transfer>> >>
                    /\ io_pc' = "idle"
                    /\ io_result' = Err(TransferFailure(e))
    /\ UNCHANGED <<hostVars, connVars, printer, buffer>>

(* write_raw after the `?`: thread::sleep(OP_DELAY ms); Ok(())             *)
WriteSettle ==
    /\ io_pc = "written"
    /\ calls' = calls \o AfterWrite
    /\ io_result' = Ok(<<>>)
    /\ io_pc' = "idle"
    /\ UNCHANGED <<hostVars, connVars, printer, bytes, buffer, ncalls>>

(* variant: a failed bulk IN transfer is tried a second time *)
ReadRawRetry ==
    /\ printer # None
    /\ io_pc = "idle"
    /\ ncalls < MaxCalls
    /\ ncalls' = ncalls + 1
    /\ LET p == Unwrap(printer)
       IN  \/ \E data \in Replies :
                /\ calls' = << <<"read_bulk", "Ok", <<p.dh, p.endpoint_r, data, p.timeout>>>> >>
                /\ buffer' = ReadInto(NewBuffer, data)
                /\ io_result' = Ok(buffer')
           \/ \E e \in TransferErrors :
                /\ calls' = << <<"read_bulk", e, <<p.dh, p.endpoint_r, <<>>, p.timeout>>>>,
                               <<"read_bulk", e, <<p.dh, p.endpoint_r, <<>>, p.timeout>>>> >>
                /\ buffer' = NewBuffer
                /\ io_result' = Err(TransferFailure(e))
    /\ UNCHANGED <<hostVars, connVars, printer, io_pc, bytes>>

(* read_raw: zeroed buffer, dh.read_bulk on the read endpoint into it,     *)
(* Ok(buffer) or the mapped error                                          *)
ReadRaw ==
    /\ printer # None
    /\ io_pc = "idle"
    /\ ncalls < MaxCalls
    /\ ncalls' = ncalls + 1
    /\ LET p == Unwrap(printer)
       IN  \/ \E data \in Replies :
                /\ calls' = << <<"read_bulk", "Ok", <<p.dh, p.endpoint_r, data, p.timeout>>>> >>
                /\ buffer' = ReadInto(NewBuffer, data)
                /\ io_result' = Ok(buffer')
           \/ \E e \in TransferErrors :     \* the buffer goes out of scope unread
                /\ calls' = << <<"read_bulk", e, <<p.dh, p.endpoint_r, <<>>, p.timeout>>>> >>
                /\ buffer' = NewBuffer
                /\ io_result' = Err(TransferFailure(e))
    /\ UNCHANGED <<hostVars, connVars, printer, io_pc, bytes>>

----------------------------------------------------------------------------
(* Specification of the transfer engine: Printer::new against a single     *)
(* enumerated device, then write_raw / read_raw on the connection          *)

InitIO ==
    /\ Init
    /\ Len(devices) = 1
    /\ printer_connection_data = UsbConnectionData(1208, 3605)

NextIO ==
    \/ Next
    \/ WriteBulk
    \/ WriteSettle
    \/ ReadRaw

SpecIO == InitIO /\ [][NextIO]_vars

----------------------------------------------------------------------------
(* Specification of endpoint resolution as a function of its inputs: any   *)
(* configuration descriptor of at most MaxEndpoints endpoints, any         *)
(* override fields in the connection data                                  *)

RECURSIVE SeqsUpTo(_, _)
SeqsUpTo(S, n) ==
    IF n = 0 THEN { <<>> }
    ELSE LET shorter == SeqsUpTo(S, n - 1)
         IN  shorter \cup { Append(q, x) : q \in shorter, x \in S }

(* ways a device lays its endpoints out over interfaces and settings *)
Layouts == { "one_setting", "per_interface", "per_setting", "split" }

Layout(eps, shape) ==
    CASE shape = "one_setting"   -> << << eps >> >>
      [] shape = "per_interface" -> [k \in 1..Len(eps) |-> << << eps[k] >> >>]
      [] shape = "per_setting"   -> << [k \in 1..Len(eps) |-> << eps[k] >>] >>
      [] shape = "split"         ->
            IF eps = <<>> THEN << << >>, << << >> >> >>
            ELSE << << << Head(eps) >>, << >> >>, << Tail(eps) >> >>

ResolverConfigs ==
    { Layout(eps, shape) : eps \in SeqsUpTo(EndpointPool, MaxEndpoints), shape \in Layouts }

(* override fields: absent, the address of an endpoint of the pool, an     *)
(* address no descriptor has                                               *)
Overrides == { None, Some(3), Some(7) }

InitResolve ==
    /\ \E cfg \in ResolverConfigs :
        /\ devices = << [vendor_id |-> 1208, product_id |-> 3605, config |-> cfg] >>
        /\ config_descriptor = Some(cfg)
    /\ \E w \in Overrides, r \in Overrides :
        printer_connection_data =
            [UsbConnectionData(1208, 3605) EXCEPT !.endpoint_w = w, !.endpoint_r = r]
    /\ kernel_driver = <<FALSE>>
    /\ open_handles = {}
    /\ claimed = {}
    /\ pc = "resolve_w"
    /\ idx = 1
    /\ actual_endpoint = None
    /\ actual_endpoint_r = None
    /\ dh = None
    /\ result = Pending
    /\ printer = None
    /\ calls = << <<"Context::new", 0, "Ok">>, <<"devices", 0, "Ok">>,
                  <<"device_descriptor", 1, "Ok">>,
                  <<"active_config_descriptor", 1, "Ok">> >>
    /\ NoTransfer

NextResolve ==
    \/ ResolveWrite
    \/ ResolveRead

SpecResolve == InitResolve /\ [][NextResolve]_vars

----------------------------------------------------------------------------
(* Vocabulary of the properties *)

RECURSIVE Concat(_)
Concat(ss) == IF Len(ss) = 0 THEN <<>> ELSE Head(ss) \o Concat(Tail(ss))

(* the endpoints of a configuration descriptor in the order interface ->   *)
(* alternate setting -> endpoint                                           *)
FlatEndpoints(cfg) == Concat([k \in 1..Len(cfg) |-> Concat(cfg[k])])

BulkPositions(cfg, dir) ==
    { k \in 1..Len(FlatEndpoints(cfg)) :
        /\ FlatEndpoints(cfg)[k].transfer_type = "Bulk"
        /\ FlatEndpoints(cfg)[k].direction = dir }

HasBulk(cfg, dir) == BulkPositions(cfg, dir) # {}

Largest(S)  == CHOOSE m \in S : \A x \in S : x <= m
Smallest(S) == CHOOSE m \in S : \A x \in S : m <= x

LastBulkAddress(cfg, dir)  == FlatEndpoints(cfg)[Largest(BulkPositions(cfg, dir))].address
FirstBulkAddress(cfg, dir) == FlatEndpoints(cfg)[Smallest(BulkPositions(cfg, dir))].address

(* positions of the enumerated devices carrying the ids asked for *)
MatchingDevices ==
    { k \in 1..Len(devices) :
        /\ devices[k].vendor_id = printer_connection_data.vendor_id
        /\ devices[k].product_id = printer_connection_data.product_id }

LastCall == calls[Len(calls)]

NoOverrides ==
    /\ printer_connection_data.endpoint_w = None
    /\ printer_connection_data.endpoint_r = None

ResolutionOver == config_descriptor # None /\ pc \notin {"resolve_w", "resolve_r"}

----------------------------------------------------------------------------
(* C1 as stated: whenever no enumerated device carries the ids asked for,  *)
(* Printer::new returns Ok(None), whatever happens during the scan.        *)
C1_NoMatchNeverFails ==
    (pc = "done" /\ MatchingDevices = {}) => result = Ok(None)

ScanCalls == {"Context::new", "devices", "device_descriptor"}

(* C1, amended: when no enumerated device carries the ids asked for,       *)
(* Printer::new returns Ok(None) if creating the context, listing the      *)
(* devices and reading every device descriptor all succeed, and otherwise  *)
(* returns the first failure of those calls as UsbError; it never returns  *)
(* a printer or NoBulkEndpoint, and never goes beyond the scan.            *)
C1_NoMatchNoneUnlessScanFails ==
    (pc = "done" /\ MatchingDevices = {}) =>
        /\ \A k \in 1..Len(calls) : calls[k][1] \in ScanCalls
        /\ \A k \in 1..(Len(calls) - 1) : calls[k][3] = "Ok"
        /\ IF LastCall[3] = "Ok"
           THEN /\ result = Ok(None)
                /\ Len(calls) = 2 + Len(devices)
           ELSE result = Err(UsbError(LastCall[3]))

(* a scan of two devices, one of them of the same vendor, ends in Ok(None) *)
C1_Witness ==
    /\ pc = "done"
    /\ MatchingDevices = {}
    /\ Len(devices) = 2
    /\ \E k \in 1..2 : devices[k].vendor_id = printer_connection_data.vendor_id
    /\ result = Ok(None)

----------------------------------------------------------------------------
(* C2: without overrides, on a configuration descriptor with at least one  *)
(* bulk OUT and one bulk IN endpoint, resolution succeeds; the write       *)
(* address is that of the last bulk OUT endpoint and the read address that *)
(* of the last bulk IN endpoint in scan order.                             *)
C2_LastBulkEndpointWins ==
    LET cfg == Unwrap(config_descriptor)
    IN  (config_descriptor # None /\ NoOverrides
            /\ HasBulk(cfg, "Out") /\ HasBulk(cfg, "In")) =>
            /\ pc # "resolve_w" => actual_endpoint = Some(LastBulkAddress(cfg, "Out"))
            /\ ResolutionOver =>
                /\ actual_endpoint_r = Some(LastBulkAddress(cfg, "In"))
                /\ result # Err(NoBulkEndpoint)
                /\ pc = "done" => result # Pending

(* resolved on a descriptor of two interfaces with two bulk OUT endpoints  *)
(* of different addresses and a bulk IN endpoint                           *)
C2_Witness ==
    /\ ResolutionOver
    /\ NoOverrides
    /\ LET cfg == Unwrap(config_descriptor)
       IN  /\ HasBulk(cfg, "Out") /\ HasBulk(cfg, "In")
           /\ FirstBulkAddress(cfg, "Out") # LastBulkAddress(cfg, "Out")
           /\ Len(cfg) = 2
           /\ actual_endpoint = Some(LastBulkAddress(cfg, "Out"))
           /\ actual_endpoint_r = Some(LastBulkAddress(cfg, "In"))

----------------------------------------------------------------------------
(* C3: when the configuration descriptor of the first matching device has  *)
(* no bulk endpoint of a direction that is not overridden, Printer::new    *)
(* fails with NoBulkEndpoint: no printer results and the device is never   *)
(* opened, also when only one of the two directions is missing.            *)
C3_MissingDirectionFails ==
    LET cfg == Unwrap(config_descriptor)
    IN  (ResolutionOver
            /\ \/ printer_connection_data.endpoint_w = None /\ ~HasBulk(cfg, "Out")
               \/ printer_connection_data.endpoint_r = None /\ ~HasBulk(cfg, "In")) =>
            /\ pc = "done"
            /\ result = Err(NoBulkEndpoint)
            /\ printer = None
            /\ open_handles = {}
            /\ \A k \in 1..Len(calls) : calls[k][1] # "open"

(* a matching device with a bulk IN endpoint and no bulk OUT endpoint *)
C3_Witness ==
    /\ pc = "done"
    /\ config_descriptor # None
    /\ HasBulk(Unwrap(config_descriptor), "In")
    /\ ~HasBulk(Unwrap(config_descriptor), "Out")
    /\ result = Err(NoBulkEndpoint)

----------------------------------------------------------------------------
(* C4: a direction with an override resolves to the override itself,       *)
(* whatever the configuration descriptor holds, and NoBulkEndpoint is      *)
(* only ever due to a direction without override.                          *)
C4_OverrideVerbatim ==
    LET cfg == Unwrap(config_descriptor)
        w   == printer_connection_data.endpoint_w
        r   == printer_connection_data.endpoint_r
    IN  config_descriptor # None =>
            /\ (w # None /\ pc # "resolve_w") => actual_endpoint = w
            /\ (r # None /\ ResolutionOver /\ actual_endpoint # None) =>
                    actual_endpoint_r = r /\ result # Err(NoBulkEndpoint)
            /\ result = Err(NoBulkEndpoint) =>
                    \/ w = None /\ ~HasBulk(cfg, "Out")
                    \/ r = None /\ ~HasBulk(cfg, "In")

(* both directions overridden on a descriptor without any bulk endpoint,   *)
(* one override being an address no endpoint has                           *)
C4_Witness ==
    /\ ResolutionOver
    /\ printer_connection_data.endpoint_w = Some(7)
    /\ printer_connection_data.endpoint_r = Some(3)
    /\ ~HasBulk(Unwrap(config_descriptor), "Out")
    /\ ~HasBulk(Unwrap(config_descriptor), "In")
    /\ Len(FlatEndpoints(Unwrap(config_descriptor))) >= 1
    /\ actual_endpoint = Some(7)
    /\ actual_endpoint_r = Some(3)
    /\ result = Pending

----------------------------------------------------------------------------
ClaimSucceeded ==
    calls # <<>> /\ LastCall = <<"claim_interface", idx, "Ok">>

(* C5: once interface 0 of the matched device is claimed, Printer::new     *)
(* returns Some(printer) whose write and read addresses are the resolved   *)
(* endpoints, whose handle is the opened device and whose timeout is the   *)
(* 2 seconds of the connection data; the Epson 0x04b8/0x0e15 with bulk OUT *)
(* 0x01 and bulk IN 0x82 gives write address 0x01 and read address 0x82.   *)
C5_ConnectionBoundToResolvedEndpoints ==
    ClaimSucceeded =>
        LET cfg == devices[idx].config
        IN  /\ pc = "done"
            /\ idx = Smallest(MatchingDevices)
            /\ result = Ok(Some([ endpoint   |-> LastBulkAddress(cfg, "Out"),
                                  endpoint_r |-> LastBulkAddress(cfg, "In"),
                                  dh         |-> idx,
                                  timeout    |-> 2 ]))
            /\ printer # None => Some(printer) = Some(result[2])
            /\ cfg = ConfigPrinter =>
                    /\ Unwrap(result[2]).endpoint = 1
                    /\ Unwrap(result[2]).endpoint_r = 130

(* the Epson TM-T20 of the end-to-end scenario, its kernel driver detached *)
C5_Witness ==
    /\ ClaimSucceeded
    /\ printer_connection_data.vendor_id = 1208
    /\ printer_connection_data.product_id = 3605
    /\ devices[idx].config = ConfigPrinter
    /\ \E k \in 1..Len(calls) : calls[k] = <<"detach_kernel_driver", idx, "Ok">>
    /\ printer = Some([endpoint |-> 1, endpoint_r |-> 130, dh |-> idx, timeout |-> 2])
    /\ result = Ok(printer)

----------------------------------------------------------------------------
WriteOver == io_pc = "idle" /\ calls # <<>> /\ calls[1][1] = "write_bulk"

(* C6: a write_raw whose bulk OUT transfer succeeds sleeps the settle      *)
(* delay after the transfer and only then returns Ok; a write_raw whose    *)
(* transfer fails returns the error without sleeping.                      *)
C6_SettleDelayIffTransferSucceeded ==
    /\ io_pc = "written" =>
            /\ Len(calls) = 1 /\ calls[1][1] = "write_bulk" /\ calls[1][2] = "Ok"
            /\ io_result = Pending
    /\ (WriteOver /\ calls[1][2] = "Ok") =>
            /\ calls = << calls[1], <<"sleep", "Ok", OP_DELAY>> >>
            /\ io_result = Ok(<<>>)
    /\ (WriteOver /\ calls[1][2] # "Ok") =>
            /\ Len(calls) = 1
            /\ IsErr(io_result)

(* the cash drawer command written, the delay slept, Ok returned *)
C6_Witness ==
    /\ WriteOver
    /\ bytes = <<27, 112, 0, 126, 126>>
    /\ calls[1][2] = "Ok"
    /\ calls[2] = <<"sleep", "Ok", 10>>
    /\ io_result = Ok(<<>>)

----------------------------------------------------------------------------
ReadOver == io_pc = "idle" /\ calls # <<>> /\ calls[1][1] = "read_bulk"

(* C7: the buffer a read_raw returns has exactly 20 bytes: the k <= 20     *)
(* bytes the device sent, followed by zeros only, whatever an earlier      *)
(* read_raw received.                                                      *)
C7_ReadBufferZeroPadded ==
    (ReadOver /\ calls[1][2] = "Ok") =>
        LET data == calls[1][3][3]
        IN  /\ IsOk(io_result)
            /\ DOMAIN io_result[2] = 1..20
            /\ Len(data) <= 20
            /\ \A i \in 1..20 :
                io_result[2][i] = IF i <= Len(data) THEN data[i] ELSE 0

(* a second call, a read of a single byte: that byte, then zeros *)
C7_Witness ==
    /\ ReadOver
    /\ ncalls = 2
    /\ calls[1][2] = "Ok"
    /\ calls[1][3][3] = <<255>>
    /\ IsOk(io_result)
    /\ io_result[2][1] = 255
    /\ \A i \in 2..20 : io_result[2][i] = 0

----------------------------------------------------------------------------
(* C8: when Printer::new returns an error, no device handle is left open   *)
(* and no interface is left claimed, also when the error comes after the   *)
(* device was opened; and once the Printer it returned is dropped, the     *)
(* interface is released and the device closed.                            *)
C8_ResourcesReleased ==
    /\ (pc = "done" /\ IsErr(result)) => (open_handles = {} /\ claimed = {} /\ dh = None)
    /\ (pc = "done" /\ printer = None) => (open_handles = {} /\ claimed = {})

(* the device was opened, the claim of interface 0 failed, the handle is   *)
(* closed on return                                                        *)
C8_Witness ==
    /\ pc = "done"
    /\ IsErr(result)
    /\ \E k \in 1..Len(calls) : calls[k] = <<"open", idx, "Ok">>
    /\ LastCall[1] = "claim_interface"
    /\ open_handles = {}
    /\ claimed = {}

----------------------------------------------------------------------------
DeviceCalls == {"active_config_descriptor", "open", "kernel_driver_active",
                "detach_kernel_driver", "claim_interface"}

ActedOn == { calls[k][2] : k \in { j \in 1..Len(calls) : calls[j][1] \in DeviceCalls } }

Visited == { calls[k][2] : k \in { j \in 1..Len(calls) : calls[j][1] = "device_descriptor" } }

(* C9: only the first enumerated device carrying the ids asked for is      *)
(* ever asked for its configuration, opened, queried, detached or claimed, *)
(* no device after it is even visited, and a failure on it is what         *)
(* Printer::new returns, whatever devices follow.                          *)
C9_OnlyFirstMatchActedOn ==
    IF MatchingDevices = {}
    THEN ActedOn = {} /\ open_handles = {} /\ claimed = {} /\ printer = None
    ELSE LET first == Smallest(MatchingDevices)
         IN  /\ ActedOn \subseteq {first}
             /\ open_handles \subseteq {first}
             /\ claimed \subseteq {first}
             /\ \A k \in Visited : k <= first
             /\ printer # None => Unwrap(printer).dh = first
             /\ (pc = "done" /\ first \in Visited) => result # Ok(None)

(* the first match has no bulk OUT endpoint, the second match is a full    *)
(* printer: NoBulkEndpoint, the second device untouched                    *)
C9_Witness ==
    /\ pc = "done"
    /\ MatchingDevices = {1, 2}
    /\ devices[1].config = ConfigInOnly
    /\ devices[2].config = ConfigPrinter
    /\ result = Err(NoBulkEndpoint)
    /\ Visited = {1}

----------------------------------------------------------------------------
(* C10: Printer::new fails only with NoBulkEndpoint or with UsbError       *)
(* carrying the cause of the host call that failed; write_raw and read_raw *)
(* fail only with UsbError carrying the cause of the failed transfer.      *)
C10_TypedErrors ==
    /\ IsErr(result) =>
            \/ /\ result[2] = <<"NoBulkEndpoint">>
               /\ LastCall = <<"active_config_descriptor", idx, "Ok">>
            \/ /\ LastCall[3] \in UsbErrors
               /\ result[2] = <<"UsbError", LastCall[3]>>
    /\ IsErr(io_result) =>
            /\ calls[1][1] \in {"write_bulk", "read_bulk"}
            /\ calls[1][2] \in TransferErrors
            /\ io_result[2] = <<"UsbError", calls[1][2]>>

(* a read_raw that timed out *)
C10_Witness ==
    /\ ReadOver
    /\ calls[1][2] = "Timeout"
    /\ io_result = Err(<<"UsbError", "Timeout">>)

----------------------------------------------------------------------------
(* position of a host call in the order of the steps of Printer::new *)
Rank(call) ==
    CASE call[1] = "Context::new"             -> 1
      [] call[1] = "devices"                  -> 2
      [] call[1] = "device_descriptor"        -> 3
      [] call[1] = "active_config_descriptor" -> 4
      [] call[1] = "open"                     -> 5
      [] call[1] = "kernel_driver_active"     -> 6
      [] call[1] = "detach_kernel_driver"     -> 7
      [] call[1] = "claim_interface"          -> 8

Failed(call) == call[3] \in UsbErrors

(* may `next` be the host call made right after `call` *)
Follows(call, next) ==
    \/ Rank(next) = Rank(call) + 1 /\ (Rank(call) >= 3 => next[2] = call[2])
    \/ Rank(call) = 3 /\ Rank(next) = 3 /\ next[2] = call[2] + 1
    \/ Rank(call) = 6 /\ Rank(next) = 8 /\ next[2] = call[2]

Called(name) == \E k \in 1..Len(calls) : calls[k][1] = name

(* C11: the host calls of Printer::new come in the order context, device   *)
(* list, device descriptors, configuration descriptor, open, driver query, *)
(* detach, claim, and stop at the first one that fails; the endpoints are  *)
(* resolved before the open, so a NoBulkEndpoint failure has opened,       *)
(* detached and claimed nothing, and nothing is claimed after a failed     *)
(* open or detach.                                                         *)
C11_StepsInOrder ==
    /\ calls # <<>> => Rank(calls[1]) = 1
    /\ \A k \in 1..(Len(calls) - 1) :
            /\ ~Failed(calls[k])
            /\ Follows(calls[k], calls[k + 1])
    /\ Called("open") => (actual_endpoint # None /\ actual_endpoint_r # None)
    /\ result = Err(NoBulkEndpoint) =>
            /\ LastCall[1] = "active_config_descriptor"
            /\ open_handles = {} /\ claimed = {} /\ dh = None
    /\ (calls # <<>> /\ Failed(LastCall)) =>
            (pc = "done" /\ result = Err(UsbError(LastCall[3])))

(* NoBulkEndpoint on the second device, whose kernel driver is attached:   *)
(* the last host call is the configuration descriptor, the driver is still *)
(* attached                                                                *)
C11_Witness ==
    /\ pc = "done"
    /\ result = Err(NoBulkEndpoint)
    /\ Len(calls) = 5
    /\ LastCall = <<"active_config_descriptor", 2, "Ok">>
    /\ kernel_driver[2]
    /\ open_handles = {}

----------------------------------------------------------------------------
(* C12: a failed kernel_driver_active query is not an error of             *)
(* Printer::new: no detach follows, interface 0 is claimed next on the     *)
(* still open handle, and the claim alone decides what is returned.        *)
C12_QueryFailureNotFatal ==
    \A k \in 1..Len(calls) :
        (calls[k][1] = "kernel_driver_active" /\ calls[k][3] = "Err") =>
            IF k = Len(calls)
            THEN /\ pc = "claim"
                 /\ result = Pending
                 /\ dh = Some(calls[k][2])
                 /\ calls[k][2] \in open_handles
            ELSE /\ Len(calls) = k + 1
                 /\ calls[k + 1][1] = "claim_interface"
                 /\ pc = "done"
                 /\ IF calls[k + 1][3] = "Ok"
                    THEN IsOk(result) /\ result[2] # None
                    ELSE result = Err(<<"UsbError", calls[k + 1][3]>>)

(* the query failed, the claim succeeded, a Printer was returned *)
C12_Witness ==
    /\ Len(calls) >= 2
    /\ calls[Len(calls) - 1][1] = "kernel_driver_active"
    /\ calls[Len(calls) - 1][3] = "Err"
    /\ LastCall[1] = "claim_interface"
    /\ LastCall[3] = "Ok"
    /\ printer # None
    /\ result = Ok(printer)

----------------------------------------------------------------------------
(* C13: detach_kernel_driver is called exactly when the query just before  *)
(* it succeeded and reported a driver attached; a failed detach is         *)
(* returned as UsbError without a claim, a failed claim is returned as     *)
(* UsbError, and a Printer is only returned right after a successful       *)
(* claim of interface 0.                                                   *)
C13_DetachIffReportedActive ==
    /\ \A k \in 1..Len(calls) :
            /\ calls[k][1] = "detach_kernel_driver" =>
                    (k > 1 /\ calls[k - 1] = <<"kernel_driver_active", calls[k][2], "OkTrue">>)
            /\ (calls[k][1] = "kernel_driver_active" /\ calls[k][3] = "OkTrue") =>
                    IF k = Len(calls) THEN pc = "detach"
                    ELSE calls[k + 1][1] = "detach_kernel_driver"
    /\ (calls # <<>> /\ LastCall[1] = "detach_kernel_driver" /\ Failed(LastCall)) =>
            /\ result = Err(<<"UsbError", LastCall[3]>>)
            /\ ~Called("claim_interface")
            /\ printer = None
    /\ (calls # <<>> /\ LastCall[1] = "claim_interface" /\ Failed(LastCall)) =>
            /\ result = Err(<<"UsbError", LastCall[3]>>)
            /\ printer = None
    /\ (IsOk(result) /\ result[2] # None) =>
            LastCall = <<"claim_interface", Unwrap(result[2]).dh, "Ok">>

(* the driver was reported attached and the detach failed *)
C13_Witness ==
    /\ pc = "done"
    /\ Len(calls) >= 2
    /\ calls[Len(calls) - 1] = <<"kernel_driver_active", idx, "OkTrue">>
    /\ LastCall = <<"detach_kernel_driver", idx, "Busy">>
    /\ result = Err(<<"UsbError", "Busy">>)
    /\ kernel_driver[idx]

----------------------------------------------------------------------------
TransferCalls == {"write_bulk", "read_bulk"}

Transferring == calls # <<>> /\ calls[1][1] \in TransferCalls

(* C14: the Printer keeps the write address, read address, handle and      *)
(* timeout Printer::new returned it with; every write_raw transfer goes to *)
(* that write address and every read_raw transfer to that read address,    *)
(* through that handle with that timeout, whether it succeeds or fails,    *)
(* and write_raw / read_raw make no other host call than the transfer.     *)
C14_ConnectionFixedAtConnect ==
    /\ printer # None => (pc = "done" /\ result = Ok(printer))
    /\ Transferring =>
            /\ pc = "done" /\ IsOk(result) /\ result[2] # None
            /\ LET p   == Unwrap(result[2])
                   cfg == devices[p.dh].config
               IN  /\ p.endpoint = LastBulkAddress(cfg, "Out")
                   /\ p.endpoint_r = LastBulkAddress(cfg, "In")
                   /\ actual_endpoint = Some(p.endpoint)
                   /\ actual_endpoint_r = Some(p.endpoint_r)
                   /\ calls[1][3][1] = p.dh
                   /\ calls[1][3][2] = IF calls[1][1] = "write_bulk"
                                       THEN p.endpoint ELSE p.endpoint_r
                   /\ calls[1][3][4] = p.timeout
            /\ \A k \in 1..Len(calls) : calls[k][1] \in TransferCalls \cup {"sleep"}

(* second call on a connection to the device with several bulk endpoints:  *)
(* a write that failed, sent to write address 0x03                         *)
C14_Witness ==
    /\ ncalls = 2
    /\ WriteOver
    /\ IsErr(io_result)
    /\ printer # None
    /\ devices[Unwrap(printer).dh].config = ConfigMulti
    /\ calls[1][3] = <<1, 3, <<27, 112, 0, 126, 126>>, 2>>

----------------------------------------------------------------------------
TransferCount ==
    Cardinality({ k \in 1..Len(calls) : calls[k][1] \in TransferCalls })

(* C15: a write_raw or read_raw call makes exactly one bulk transfer; a    *)
(* failed transfer ends the call with its error, nothing being tried       *)
(* again, and leaves the connection ready for a further call, which makes  *)
(* its own transfer.                                                       *)
C15_OneTransferPerCall ==
    /\ Transferring =>
            /\ TransferCount = 1
            /\ calls[1][2] # "Ok" =>
                    /\ Len(calls) = 1
                    /\ io_pc = "idle"
                    /\ io_result = Err(<<"UsbError", calls[1][2]>>)
    /\ (io_pc = "idle" /\ IsErr(io_result) /\ printer # None /\ ncalls < MaxCalls) =>
            (ENABLED WriteBulk /\ ENABLED ReadRaw)

(* a first call whose transfer stalled, the connection still there for     *)
(* the next call                                                           *)
C15_Witness ==
    /\ ncalls = 1
    /\ ReadOver
    /\ Len(calls) = 1
    /\ io_result = Err(<<"UsbError", "Pipe">>)
    /\ printer # None
    /\ ENABLED WriteBulk

----------------------------------------------------------------------------
(* C16: the device descriptor of every device the scan reaches is read     *)
(* before its ids are compared, and a failed read ends Printer::new with   *)
(* that failure as UsbError, no device acted on, whether or not that       *)
(* device carries the ids asked for and whatever devices follow it.        *)
C16_UnreadableDescriptorAborts ==
    /\ \A i \in 1..Len(devices) :
            (i < idx \/ (i = idx /\ pc # "loop")) => i \in Visited
    /\ \A k \in 1..Len(calls) :
            (calls[k][1] = "device_descriptor" /\ Failed(calls[k])) =>
                /\ k = Len(calls)
                /\ pc = "done"
                /\ result = Err(<<"UsbError", calls[k][3]>>)
                /\ ActedOn = {}
                /\ open_handles = {}
                /\ printer = None

(* the descriptor of a first device of another vendor cannot be read; the  *)
(* second device carries the ids asked for and is a full printer           *)
C16_Witness ==
    /\ pc = "done"
    /\ Len(devices) = 2
    /\ devices[1].vendor_id # printer_connection_data.vendor_id
    /\ MatchingDevices = {2}
    /\ devices[2].config = ConfigPrinter
    /\ LastCall = <<"device_descriptor", 1, "Access">>
    /\ result = Err(<<"UsbError", "Access">>)

----------------------------------------------------------------------------
QueryCalls == { k \in 1..Len(calls) : calls[k][1] = "kernel_driver_active" }

(* C17: a live Printer holds an open handle on which interface 0 is        *)
(* claimed; when it was claimed, the kernel driver had been reported       *)
(* inactive, or had been detached, or the query had failed.                *)
C17_LivePrinterHoldsClaimedHandle ==
    printer # None =>
        LET h == Unwrap(printer).dh
        IN  /\ h \in open_handles
            /\ h \in claimed
            /\ \E k \in 1..Len(calls) : calls[k] = <<"open", h, "Ok">>
            /\ LastCall = <<"claim_interface", h, "Ok">>
            /\ Cardinality(QueryCalls) = 1
            /\ \A k \in QueryCalls :
                    /\ calls[k][2] = h
                    /\ \/ calls[k][3] = "OkFalse" /\ ~kernel_driver[h]
                       \/ calls[k][3] = "Err"
                       \/ /\ calls[k][3] = "OkTrue"
                          /\ calls[k + 1] = <<"detach_kernel_driver", h, "Ok">>
                          /\ ~kernel_driver[h]

(* a Printer on the second device, whose kernel driver was detached *)
C17_Witness ==
    /\ printer # None
    /\ Unwrap(printer).dh = 2
    /\ open_handles = {2}
    /\ claimed = {2}
    /\ \E k \in 1..Len(calls) : calls[k] = <<"detach_kernel_driver", 2, "Ok">>
    /\ ~kernel_driver[2]

----------------------------------------------------------------------------
(* C18: a kernel driver Printer::new detached stays detached: when the     *)
(* claim that follows a successful detach fails, Printer::new returns      *)
(* UsbError with the handle closed and the driver, attached before the     *)
(* call, no longer attached.                                               *)
C18_DetachedDriverStaysDetached ==
    \A k \in 1..Len(calls) :
        calls[k][1] = "detach_kernel_driver" /\ calls[k][3] = "Ok" =>
            /\ calls[k - 1] = <<"kernel_driver_active", calls[k][2], "OkTrue">>
            /\ ~kernel_driver[calls[k][2]]
            /\ (k < Len(calls) /\ Failed(calls[k + 1])) =>
                    /\ calls[k + 1][1] = "claim_interface"
                    /\ pc = "done"
                    /\ result = Err(<<"UsbError", calls[k + 1][3]>>)
                    /\ open_handles = {}

(* the driver was attached, the detach succeeded, the claim failed *)
C18_Witness ==
    /\ pc = "done"
    /\ Len(calls) >= 3
    /\ calls[Len(calls) - 2] = <<"kernel_driver_active", idx, "OkTrue">>
    /\ calls[Len(calls) - 1] = <<"detach_kernel_driver", idx, "Ok">>
    /\ LastCall = <<"claim_interface", idx, "Busy">>
    /\ IsErr(result)
    /\ ~kernel_driver[idx]

====
